---- MODULE Spec2Model ----
(***************************************************************************)
(* Keyring TOTP Generator: the credential manager (KeyringTotpGenerator)   *)
(* of totp_generator/core_utils.py over a keyring that holds one blob.     *)
(*                                                                         *)
(* Python values are tagged records: a str is a sequence of characters, a  *)
(* dict is the sequence of its items in insertion order (keys unique).     *)
(* JSON text is a sequence of tokens, written by dumps and parsed by loads.*)
(***************************************************************************)
EXTENDS Integers, Sequences, FiniteSets, TLC

VARIABLES
    creds,   \* self.creds of the manager
    store,   \* the keyring entry (SERVICE_NAME, user): None or the blob
    last,    \* the call made last, its result and the state it was made in
    out,     \* the value the last call returned, where it is no bool
    peer,    \* self.creds of a second manager on the same keyring entry
    disk,    \* the dump file: None or its bytes
    fresh,   \* a manager constructed on an empty keyring
    run      \* the run of the command line program

vars == <<creds, store, last, out, peer, disk, fresh, run>>

(* ------------------------------ bounds --------------------------------- *)

\* largest number of services the in-memory set may hold before an
\* operation that can grow it (add, import) is no longer explored
MaxServices == 2

\* largest number of services of a set whose names are listed
MaxListed == 3

(* --------------------------- Python values ----------------------------- *)

PyNone == [t |-> "none"]

PyStr(s) == [t |-> "str", v |-> s]

PyBool(b) == [t |-> "bool", v |-> b]

PyDict(items) == [t |-> "dict", v |-> items]

EmptyDict == PyDict(<<>>)

IsDict(x) == x.t = "dict"

IsStr(x) == x.t = "str"

\* truth value of an argument: None and '' are false
Truthy(x) == IsStr(x) /\ x.v # <<>>

\* keys of a dict, as a set of character sequences
Keys(d) == {d.v[i][1] : i \in 1..Len(d.v)}

\* k in d
HasKey(d, k) == \E i \in 1..Len(d.v) : d.v[i][1] = k

IndexOf(d, k) == CHOOSE i \in 1..Len(d.v) : d.v[i][1] = k

\* d[k], for k in d
DictGet(d, k) == d.v[IndexOf(d, k)][2]

\* d[k] = val : an existing key keeps its position, a new key goes last
DictSet(d, k, val) ==
    IF HasKey(d, k)
    THEN PyDict([d.v EXCEPT ![IndexOf(d, k)] = <<k, val>>])
    ELSE PyDict(Append(d.v, <<k, val>>))

\* d.pop(k, None)
DictPop(d, k) ==
    IF HasKey(d, k)
    THEN LET i == IndexOf(d, k)
         IN  PyDict(SubSeq(d.v, 1, i - 1) \o SubSeq(d.v, i + 1, Len(d.v)))
    ELSE d

RECURSIVE DictUpdateFrom(_, _, _)
DictUpdateFrom(d, other, i) ==
    IF i > Len(other.v) THEN d
    ELSE DictUpdateFrom(DictSet(d, other.v[i][1], other.v[i][2]), other, i + 1)

\* d.update(other), other a dict
DictUpdate(d, other) == DictUpdateFrom(d, other, 1)

\* Python ==  (dicts compare as mappings: the order of the items is ignored)
RECURSIVE PyEq(_, _)
PyEq(a, b) ==
    IF a.t # b.t THEN FALSE
    ELSE IF a.t = "none" THEN TRUE
    ELSE IF a.t = "str" THEN a.v = b.v
    ELSE IF a.t = "bool" THEN a.v = b.v
    ELSE /\ Keys(a) = Keys(b)
         /\ \A k \in Keys(a) : PyEq(DictGet(a, k), DictGet(b, k))

(* ------------------------------ JSON text ------------------------------ *)

LBRACE == [k |-> "{"]

RBRACE == [k |-> "}"]

COLON == [k |-> ":"]

COMMA == [k |-> ","]

NULL == [k |-> "null"]

StrTok(s) == [k |-> "str", s |-> s]

RECURSIVE dumps(_)
RECURSIVE dumps_items(_, _)
\* the members of a JSON object from the i-th item of a dict on, in the
\* order of the dict, separated by commas
dumps_items(d, i) ==
    IF i > Len(d.v) THEN <<>>
    ELSE (IF i > 1 THEN <<COMMA>> ELSE <<>>)
         \o <<StrTok(d.v[i][1]), COLON>> \o dumps(d.v[i][2])
         \o dumps_items(d, i + 1)

\* json.dumps(x)
dumps(x) ==
    IF x.t = "none" THEN <<NULL>>
    ELSE IF x.t = "str" THEN <<StrTok(x.v)>>
    ELSE <<LBRACE>> \o dumps_items(x, 1) \o <<RBRACE>>

ParseFail == [ok |-> FALSE, val |-> PyNone, rest |-> <<>>]

RECURSIVE ParseValue(_)
RECURSIVE ParseMembers(_, _)
\* members of an object after its opening brace or after a comma; a name
\* that occurs twice keeps its first position and takes its last value
ParseMembers(toks, acc) ==
    IF Len(toks) < 2 THEN ParseFail
    ELSE IF toks[1].k # "str" \/ toks[2].k # ":" THEN ParseFail
    ELSE LET r == ParseValue(SubSeq(toks, 3, Len(toks)))
         IN  IF ~r.ok \/ Len(r.rest) = 0 THEN ParseFail
             ELSE IF r.rest[1].k = "}"
                  THEN [ok |-> TRUE, val |-> DictSet(acc, toks[1].s, r.val),
                        rest |-> Tail(r.rest)]
             ELSE IF r.rest[1].k = ","
                  THEN ParseMembers(Tail(r.rest), DictSet(acc, toks[1].s, r.val))
             ELSE ParseFail

\* one JSON value at the head of toks, and the tokens left after it
ParseValue(toks) ==
    IF Len(toks) = 0 THEN ParseFail
    ELSE IF toks[1].k = "null" THEN [ok |-> TRUE, val |-> PyNone, rest |-> Tail(toks)]
    ELSE IF toks[1].k = "str"
         THEN [ok |-> TRUE, val |-> PyStr(toks[1].s), rest |-> Tail(toks)]
    ELSE IF toks[1].k = "{"
         THEN IF Len(toks) >= 2 /\ toks[2].k = "}"
              THEN [ok |-> TRUE, val |-> EmptyDict, rest |-> SubSeq(toks, 3, Len(toks))]
              ELSE ParseMembers(Tail(toks), EmptyDict)
    ELSE ParseFail

\* json.loads(text): ok is false where json.loads raises ValueError
loads(text) ==
    LET r == ParseValue(text)
    IN  IF r.ok /\ Len(r.rest) = 0 THEN [ok |-> TRUE, val |-> r.val]
        ELSE [ok |-> FALSE, val |-> PyNone]

(* ------------------------------- keyring ------------------------------- *)

\* keyring.get_password(SERVICE_NAME, user): None when nothing is stored
get_password(st) == st

\* keyring.set_password(SERVICE_NAME, user, blob): replaces the whole blob
set_password(st, blob) == PyStr(blob)

(* ------------------------- KeyringTotpGenerator ------------------------ *)

CODE == <<"c", "o", "d", "e">>

\* load_creds that takes the blob of an empty set for no blob
load_creds_empty_absent(st, init_new) ==
    LET keyring_data == get_password(st)
    IN  IF ~Truthy(keyring_data) \/ keyring_data.v = dumps(EmptyDict)
        THEN IF init_new THEN [raised |-> FALSE, val |-> EmptyDict]
             ELSE [raised |-> FALSE, val |-> PyBool(FALSE)]
        ELSE LET r == loads(keyring_data.v)
             IN  [raised |-> ~r.ok, val |-> r.val]

\* load_creds(init_new)
load_creds(st, init_new) ==
    LET keyring_data == get_password(st)
    IN  IF ~Truthy(keyring_data)
        THEN IF init_new THEN [raised |-> FALSE, val |-> EmptyDict]
             ELSE [raised |-> FALSE, val |-> PyBool(FALSE)]
        ELSE LET r == loads(keyring_data.v)
             IN  [raised |-> ~r.ok, val |-> r.val]

\* save_creds that does not write an empty set
save_creds_skip_empty(c, st) ==
    IF Len(c.v) = 0 THEN st ELSE set_password(st, dumps(c))

\* save_creds that reads the blob back and merges the set into it
save_creds_merge(c, st) ==
    LET r == load_creds(st, TRUE)
    IN  IF r.raised \/ ~IsDict(r.val) THEN set_password(st, dumps(c))
        ELSE set_password(st, dumps(DictUpdate(r.val, c)))

\* save_creds(): the store after the write
save_creds(c, st) == set_password(st, dumps(c))

Result(c, st, ret, wrote) == [creds |-> c, store |-> st, ret |-> ret, wrote |-> wrote]

\* add_service without the check for an existing name
add_service_overwrite(c, st, name, secret) ==
    LET c1 == DictSet(c, name.v, EmptyDict)
        c2 == DictSet(c1, name.v, DictSet(DictGet(c1, name.v), CODE, secret))
    IN  Result(c2, save_creds(c2, st), "True", TRUE)

\* add_service that does not save
add_service_unsaved(c, st, name, secret) ==
    IF HasKey(c, name.v) THEN Result(c, st, "False", FALSE)
    ELSE LET c1 == DictSet(c, name.v, EmptyDict)
             c2 == DictSet(c1, name.v, DictSet(DictGet(c1, name.v), CODE, secret))
         IN  Result(c2, st, "True", FALSE)

\* add_service(name, secret)
add_service(c, st, name, secret) ==
    IF HasKey(c, name.v) THEN Result(c, st, "False", FALSE)
    ELSE LET c1 == DictSet(c, name.v, EmptyDict)
             c2 == DictSet(c1, name.v, DictSet(DictGet(c1, name.v), CODE, secret))
         IN  Result(c2, save_creds(c2, st), "True", TRUE)

\* the part of edit_service after its two checks; pop is false where the
\* record is left under old_name as well
edit_changes(c, st, old_name, new_name, secret, pop) ==
    IF ~HasKey(c, old_name.v) THEN Result(c, st, "KeyError", FALSE)
    ELSE IF Truthy(secret) /\ ~IsDict(DictGet(c, old_name.v))
         THEN Result(c, st, "TypeError", FALSE)
    ELSE LET c1 == IF Truthy(secret)
                   THEN DictSet(c, old_name.v,
                                DictSet(DictGet(c, old_name.v), CODE, secret))
                   ELSE c
             c2 == IF Truthy(new_name)
                   THEN LET existing_data == DictGet(c1, old_name.v)
                        IN  DictSet(IF pop THEN DictPop(c1, old_name.v) ELSE c1,
                                    new_name.v, existing_data)
                   ELSE c1
         IN  Result(c2, save_creds(c2, st), "True", TRUE)

\* edit_service that renames without removing old_name
edit_service_keep_old(c, st, old_name, new_name, secret) ==
    IF IsStr(new_name) /\ HasKey(c, new_name.v) THEN Result(c, st, "False", FALSE)
    ELSE IF ~Truthy(secret) /\ ~Truthy(new_name) THEN Result(c, st, "False", FALSE)
    ELSE edit_changes(c, st, old_name, new_name, secret, FALSE)

\* edit_service that overwrites the code before it checks new_name
edit_service_secret_first(c, st, old_name, new_name, secret) ==
    LET c1 == IF /\ Truthy(secret) /\ HasKey(c, old_name.v)
                 /\ IsDict(DictGet(c, old_name.v))
              THEN DictSet(c, old_name.v,
                           DictSet(DictGet(c, old_name.v), CODE, secret))
              ELSE c
    IN  IF IsStr(new_name) /\ HasKey(c1, new_name.v) THEN Result(c1, st, "False", FALSE)
        ELSE IF ~Truthy(secret) /\ ~Truthy(new_name) THEN Result(c1, st, "False", FALSE)
        ELSE edit_changes(c, st, old_name, new_name, secret, TRUE)

\* edit_service that takes the service's own name for no collision
edit_service_self_ok(c, st, old_name, new_name, secret) ==
    IF IsStr(new_name) /\ HasKey(c, new_name.v) /\ new_name.v # old_name.v
    THEN Result(c, st, "False", FALSE)
    ELSE IF ~Truthy(secret) /\ ~Truthy(new_name) THEN Result(c, st, "False", FALSE)
    ELSE edit_changes(c, st, old_name, new_name, secret, TRUE)

\* edit_service without the check for an edit that changes nothing
edit_service_unchecked(c, st, old_name, new_name, secret) ==
    IF IsStr(new_name) /\ HasKey(c, new_name.v) THEN Result(c, st, "False", FALSE)
    ELSE edit_changes(c, st, old_name, new_name, secret, TRUE)

\* edit_service(old_name, new_name, secret); ret names the exception where
\* the call raises instead of returning
edit_service(c, st, old_name, new_name, secret) ==
    IF IsStr(new_name) /\ HasKey(c, new_name.v) THEN Result(c, st, "False", FALSE)
    ELSE IF ~Truthy(secret) /\ ~Truthy(new_name) THEN Result(c, st, "False", FALSE)
    ELSE IF ~HasKey(c, old_name.v) THEN Result(c, st, "KeyError", FALSE)
    ELSE IF Truthy(secret) /\ ~IsDict(DictGet(c, old_name.v))
         THEN Result(c, st, "TypeError", FALSE)
    ELSE LET c1 == IF Truthy(secret)
                   THEN DictSet(c, old_name.v,
                                DictSet(DictGet(c, old_name.v), CODE, secret))
                   ELSE c
             c2 == IF Truthy(new_name)
                   THEN LET existing_data == DictGet(c1, old_name.v)
                        IN  DictSet(DictPop(c1, old_name.v), new_name.v, existing_data)
                   ELSE c1
         IN  Result(c2, save_creds(c2, st), "True", TRUE)

\* rm_service with del self.creds[service] for the pop
rm_service_del(c, st, service) ==
    IF ~HasKey(c, service.v) THEN Result(c, st, "KeyError", FALSE)
    ELSE LET c1 == DictPop(c, service.v)
         IN  Result(c1, save_creds(c1, st), "True", TRUE)

\* rm_service(service)
rm_service(c, st, service) ==
    LET c1 == DictPop(c, service.v)
    IN  Result(c1, save_creds(c1, st), "True", TRUE)

RECURSIVE DictSetDefaultFrom(_, _, _)
DictSetDefaultFrom(d, other, i) ==
    IF i > Len(other.v) THEN d
    ELSE DictSetDefaultFrom(IF HasKey(d, other.v[i][1]) THEN d
                            ELSE DictSet(d, other.v[i][1], other.v[i][2]),
                            other, i + 1)

\* import_creds_from_file that keeps the existing entry of an imported name
import_creds_keep_existing(c, st, file) ==
    IF ~IsStr(file) THEN Result(c, st, "False", FALSE)
    ELSE LET r == loads(file.v)
         IN  IF ~r.ok THEN Result(c, st, "False", FALSE)
             ELSE IF IsDict(r.val)
                  THEN LET c1 == DictSetDefaultFrom(c, r.val, 1)
                       IN  Result(c1, save_creds(c1, st), "True", TRUE)
             ELSE IF r.val = PyStr(<<>>)
                  THEN Result(c, save_creds(c, st), "True", TRUE)
             ELSE IF IsStr(r.val) THEN Result(c, st, "ValueError", FALSE)
             ELSE Result(c, st, "TypeError", FALSE)

\* import_creds_from_file that merges each member as soon as it is parsed:
\* the first member of a file that fails to parse later is merged
import_creds_streaming(c, st, file) ==
    IF ~IsStr(file) THEN Result(c, st, "False", FALSE)
    ELSE LET r == loads(file.v)
             t == file.v
             m == IF Len(t) >= 4 /\ t[1].k = "{" /\ t[2].k = "str" /\ t[3].k = ":"
                  THEN ParseValue(SubSeq(t, 4, Len(t)))
                  ELSE ParseFail
         IN  IF ~r.ok
             THEN Result(IF m.ok THEN DictSet(c, t[2].s, m.val) ELSE c,
                         st, "False", FALSE)
             ELSE IF IsDict(r.val)
                  THEN LET c1 == DictUpdate(c, r.val)
                       IN  Result(c1, save_creds(c1, st), "True", TRUE)
             ELSE IF r.val = PyStr(<<>>)
                  THEN Result(c, save_creds(c, st), "True", TRUE)
             ELSE IF IsStr(r.val) THEN Result(c, st, "ValueError", FALSE)
             ELSE Result(c, st, "TypeError", FALSE)

\* import_creds_from_file(file_name); file is the content of the named
\* file, None when it cannot be opened
import_creds_from_file(c, st, file) ==
    IF ~IsStr(file) THEN Result(c, st, "False", FALSE)
    ELSE LET r == loads(file.v)
         IN  IF ~r.ok THEN Result(c, st, "False", FALSE)
             ELSE IF IsDict(r.val)
                  THEN LET c1 == DictUpdate(c, r.val)
                       IN  Result(c1, save_creds(c1, st), "True", TRUE)
             ELSE IF r.val = PyStr(<<>>)
                  THEN Result(c, save_creds(c, st), "True", TRUE)
             ELSE IF IsStr(r.val) THEN Result(c, st, "ValueError", FALSE)
             ELSE Result(c, st, "TypeError", FALSE)

(* --------------------------- text and bytes ---------------------------- *)

UPPER == <<"A", "B", "C", "D", "E", "F", "G", "H", "I", "J", "K", "L", "M",
           "N", "O", "P", "Q", "R", "S", "T", "U", "V", "W", "X", "Y", "Z">>

LOWER == <<"a", "b", "c", "d", "e", "f", "g", "h", "i", "j", "k", "l", "m",
           "n", "o", "p", "q", "r", "s", "t", "u", "v", "w", "x", "y", "z">>

DIGITS == <<"0", "1", "2", "3", "4", "5", "6", "7", "8", "9">>

\* the other characters in use and their code points
OtherChars ==
    { <<" ", 32>>, <<"!", 33>>, <<"=", 61>>,
      <<"U+00A9", 169>>, <<"U+00C3", 195>>, <<"U+00DD", 221>>, <<"U+00E9", 233>> }

PosIn(seq, x) == CHOOSE i \in 1..Len(seq) : seq[i] = x

IsIn(seq, x) == \E i \in 1..Len(seq) : seq[i] = x

\* ord(ch)
Ord(ch) ==
    IF IsIn(UPPER, ch) THEN 64 + PosIn(UPPER, ch)
    ELSE IF IsIn(LOWER, ch) THEN 96 + PosIn(LOWER, ch)
    ELSE IF IsIn(DIGITS, ch) THEN 47 + PosIn(DIGITS, ch)
    ELSE (CHOOSE p \in OtherChars : p[1] = ch)[2]

\* chr(n)
Chr(n) ==
    IF n \in 65..90 THEN UPPER[n - 64]
    ELSE IF n \in 97..122 THEN LOWER[n - 96]
    ELSE IF n \in 48..57 THEN DIGITS[n - 47]
    ELSE (CHOOSE p \in OtherChars : p[2] = n)[1]

\* the UTF-8 bytes of one code point
utf8_encode_char(cp) ==
    IF cp < 128 THEN <<cp>>
    ELSE IF cp < 2048 THEN <<192 + (cp \div 64), 128 + (cp % 64)>>
    ELSE <<224 + (cp \div 4096), 128 + ((cp \div 64) % 64), 128 + (cp % 64)>>

RECURSIVE utf8_encode(_)
\* s.encode('utf-8')
utf8_encode(s) ==
    IF Len(s) = 0 THEN <<>>
    ELSE utf8_encode_char(Ord(Head(s))) \o utf8_encode(Tail(s))

DecodeFail == [ok |-> FALSE, s |-> <<>>]

IsCont(b, i) == i <= Len(b) /\ b[i] \in 128..191

RECURSIVE utf8_decode(_)
\* b.decode('utf-8'); ok is false where it raises UnicodeDecodeError
utf8_decode(b) ==
    IF Len(b) = 0 THEN [ok |-> TRUE, s |-> <<>>]
    ELSE LET n  == IF b[1] < 128 THEN 1
                   ELSE IF b[1] \in 194..223 /\ IsCont(b, 2) THEN 2
                   ELSE IF b[1] \in 224..239 /\ IsCont(b, 2) /\ IsCont(b, 3) THEN 3
                   ELSE 0
             cp == IF n = 1 THEN b[1]
                   ELSE IF n = 2 THEN (b[1] - 192) * 64 + (b[2] - 128)
                   ELSE (b[1] - 224) * 4096 + (b[2] - 128) * 64 + (b[3] - 128)
         IN  IF n = 0 THEN DecodeFail
             ELSE LET r == utf8_decode(SubSeq(b, n + 1, Len(b)))
                  IN  IF r.ok THEN [ok |-> TRUE, s |-> <<Chr(cp)>> \o r.s]
                      ELSE DecodeFail

\* the bytes that the code page cp1252 leaves undefined
Cp1252Undefined == {129, 141, 143, 144, 157}

\* the code points of the bytes 128..159 in cp1252 (0 where undefined)
Cp1252High ==
    <<8364, 0, 8218, 402, 8222, 8230, 8224, 8225, 710, 8240, 352, 8249, 338,
      0, 381, 0, 0, 8216, 8217, 8220, 8221, 8226, 8211, 8212, 732, 8482, 353,
      8250, 339, 0, 382, 376>>

RECURSIVE cp1252_decode(_)
\* b.decode('cp1252')
cp1252_decode(b) ==
    IF Len(b) = 0 THEN [ok |-> TRUE, s |-> <<>>]
    ELSE IF b[1] \in Cp1252Undefined THEN DecodeFail
    ELSE LET cp == IF b[1] \in 128..159 THEN Cp1252High[b[1] - 127] ELSE b[1]
             r  == cp1252_decode(Tail(b))
         IN  IF r.ok THEN [ok |-> TRUE, s |-> <<Chr(cp)>> \o r.s] ELSE DecodeFail

\* the encodings that open(file_name, 'r') may use: the preferred encoding
\* of the host
Encodings == {"utf-8", "cp1252"}

decode(b, encoding) == IF encoding = "utf-8" THEN utf8_decode(b) ELSE cp1252_decode(b)

PyBytes(toks) == [t |-> "bytes", v |-> toks]

\* a string of JSON text as bytes; the other tokens are ASCII in every
\* encoding
BytesTok(b) == [k |-> "str", b |-> b]

\* JSON text written through codecs.getwriter('utf-8')
write_utf8(text) ==
    [i \in 1..Len(text) |->
        IF text[i].k = "str" THEN BytesTok(utf8_encode(text[i].s)) ELSE text[i]]

\* file.read() of a file opened with open(file_name, 'r'): ok is false
\* where it raises UnicodeDecodeError
read_text(b, encoding) ==
    IF \E i \in 1..Len(b) : b[i].k = "str" /\ ~decode(b[i].b, encoding).ok
    THEN [ok |-> FALSE, text |-> <<>>]
    ELSE [ok |-> TRUE,
          text |-> [i \in 1..Len(b) |->
                       IF b[i].k = "str" THEN StrTok(decode(b[i].b, encoding).s)
                       ELSE b[i]]]

\* export_creds_to_file(file_name): the return value and the file written
export_creds_to_file(c) ==
    [ret |-> "True", file |-> PyBytes(write_utf8(dumps(c)))]

\* import_creds_from_file(file_name) of a file given by its bytes d (None
\* when it cannot be opened) on a host with the given preferred encoding;
\* UnicodeDecodeError is a ValueError
import_creds_from_path(c, st, d, encoding) ==
    IF d.t # "bytes" THEN import_creds_from_file(c, st, PyNone)
    ELSE LET r == read_text(d.v, encoding)
         IN  IF ~r.ok THEN Result(c, st, "False", FALSE)
             ELSE import_creds_from_file(c, st, PyStr(r.text))

(* ------------------------------ listing -------------------------------- *)

PyList(items) == [t |-> "list", v |-> items]

RECURSIVE StrLess(_, _)
\* a < b for two str: by code point, a proper prefix first
StrLess(a, b) ==
    IF Len(b) = 0 THEN FALSE
    ELSE IF Len(a) = 0 THEN TRUE
    ELSE IF Ord(a[1]) < Ord(b[1]) THEN TRUE
    ELSE IF Ord(a[1]) > Ord(b[1]) THEN FALSE
    ELSE StrLess(Tail(a), Tail(b))

RECURSIVE SortedInsert(_, _)
\* x put into the ascending sequence seq, after the elements not above it
SortedInsert(seq, x) ==
    IF Len(seq) = 0 THEN <<x>>
    ELSE IF StrLess(x, Head(seq)) THEN <<x>> \o seq
    ELSE <<Head(seq)>> \o SortedInsert(Tail(seq), x)

RECURSIVE SortedFrom(_, _, _)
SortedFrom(seq, i, acc) ==
    IF i > Len(seq) THEN acc
    ELSE SortedFrom(seq, i + 1, SortedInsert(acc, seq[i]))

\* sorted(seq) for a sequence of str
sorted(seq) == SortedFrom(seq, 1, <<>>)

\* iteration over a dict: its keys in insertion order
KeyList(d) == [i \in 1..Len(d.v) |-> d.v[i][1]]

\* get_services without the sort
get_services_unsorted(c) == PyList(KeyList(c))

\* get_services()
get_services(c) == PyList(sorted(KeyList(c)))

(* --------------------------- code generation --------------------------- *)

\* the base32 alphabet of base64.b32decode
B32ALPHABET == UPPER \o <<"2", "3", "4", "5", "6", "7">>

\* str.upper() of one character
upper(ch) == IF IsIn(LOWER, ch) THEN UPPER[PosIn(LOWER, ch)] ELSE ch

\* str.lower() of one character
lower(ch) == IF IsIn(UPPER, ch) THEN LOWER[PosIn(UPPER, ch)] ELSE ch

Repeat(ch, n) == [i \in 1..n |-> ch]

RECURSIVE rstrip(_, _)
\* s.rstrip(ch)
rstrip(s, ch) ==
    IF Len(s) > 0 /\ s[Len(s)] = ch THEN rstrip(SubSeq(s, 1, Len(s) - 1), ch)
    ELSE s

B32Error(msg) == [ok |-> FALSE, err |-> msg, key |-> <<>>]

\* base64.b32decode(s, casefold=True): the key is given by its 5-bit symbols
b32decode(s) ==
    IF \E i \in 1..Len(s) : Ord(s[i]) >= 128 THEN B32Error("ValueError")
    ELSE IF Len(s) % 8 # 0 THEN B32Error("binascii.Error: Incorrect padding")
    ELSE LET up == [i \in 1..Len(s) |-> upper(s[i])]
             stripped == rstrip(up, "=")
             padchars == Len(up) - Len(stripped)
         IN  IF \E i \in 1..Len(stripped) : ~IsIn(B32ALPHABET, stripped[i])
             THEN B32Error("binascii.Error: Non-base32 digit found")
             ELSE IF padchars \notin {0, 1, 3, 4, 6}
             THEN B32Error("binascii.Error: Incorrect padding")
             ELSE [ok |-> TRUE, err |-> "", key |-> stripped]

\* pyotp's byte_secret(): the secret is padded with = to a multiple of 8
byte_secret(secret) ==
    LET missing_padding == Len(secret) % 8
    IN  IF missing_padding # 0
        THEN b32decode(secret \o Repeat("=", 8 - missing_padding))
        ELSE b32decode(secret)

RECURSIVE str_of_int(_)
\* str(n), n >= 0
str_of_int(n) ==
    IF n < 10 THEN <<DIGITS[n + 1]>>
    ELSE Append(str_of_int(n \div 10), DIGITS[(n % 10) + 1])

RECURSIVE int_of_str(_)
\* int(s), s a string of decimal digits
int_of_str(s) ==
    IF Len(s) = 0 THEN 0
    ELSE 10 * int_of_str(SubSeq(s, 1, Len(s) - 1)) + (PosIn(DIGITS, s[Len(s)]) - 1)

\* s.rjust(width, fill)
rjust(s, width, fill) ==
    IF Len(s) >= width THEN s ELSE Repeat(fill, width - Len(s)) \o s

\* totp.now(): the value the library computes, as a string of six digits
pyotp_now(otp) == rjust(str_of_int(otp), 6, "0")

Raised(err, secret) == [ret |-> err, code |-> PyNone, secret |-> secret]

\* get_totp_code with "%d" for "%06d"
get_totp_code_unpadded(c, service, otp) ==
    IF ~HasKey(c, service.v) THEN Raised("KeyError", PyNone)
    ELSE LET rec == DictGet(c, service.v)
         IN  IF ~IsDict(rec) THEN Raised("TypeError", PyNone)
             ELSE IF ~HasKey(rec, CODE) THEN Raised("KeyError", PyNone)
             ELSE LET secret == DictGet(rec, CODE)
                  IN  IF ~IsStr(secret) THEN Raised("TypeError", secret)
                      ELSE IF ~byte_secret(secret.v).ok
                      THEN Raised(byte_secret(secret.v).err, secret)
                      ELSE [ret |-> "str", secret |-> secret,
                            code |-> PyStr(str_of_int(int_of_str(pyotp_now(otp))))]

\* get_totp_code(service); otp is the value pyotp computes for the secret
\* at the current time
get_totp_code(c, service, otp) ==
    IF ~HasKey(c, service.v) THEN Raised("KeyError", PyNone)
    ELSE LET rec == DictGet(c, service.v)
         IN  IF ~IsDict(rec) THEN Raised("TypeError", PyNone)
             ELSE IF ~HasKey(rec, CODE) THEN Raised("KeyError", PyNone)
             ELSE LET secret == DictGet(rec, CODE)
                  IN  IF ~IsStr(secret) THEN Raised("TypeError", secret)
                      ELSE IF ~byte_secret(secret.v).ok
                      THEN Raised(byte_secret(secret.v).err, secret)
                      ELSE [ret |-> "str", secret |-> secret,
                            code |-> PyStr(rjust(str_of_int(int_of_str(pyotp_now(otp))),
                                                 6, "0"))]

(* ------------------------------- inputs -------------------------------- *)

Names == {<<>>, <<"a">>, <<"b">>}

Secrets == {<<>>, <<"M", "F">>, <<"M", "1">>}

NOTE == <<"n">>

Rec(secret) == PyDict(<<<<CODE, PyStr(secret)>>>>)

\* a dump file cut off after its first member: {"a": {"code": "M1"}, "b"
TruncatedFile ==
    PyStr(<<LBRACE, StrTok(<<"a">>), COLON>> \o dumps(Rec(<<"M", "1">>))
          \o <<COMMA, StrTok(<<"b">>)>>)

\* contents of the dump files the user may name
Files ==
    { PyNone,
      PyStr(<<>>),
      TruncatedFile,
      PyStr(<<NULL>>),
      PyStr(<<StrTok(<<>>)>>),
      PyStr(dumps(EmptyDict)),
      PyStr(dumps(PyDict(<<<<<<"a">>, Rec(<<"M", "F">>)>>>>))),
      PyStr(dumps(PyDict(<<<<<<"b">>, Rec(<<"M", "1">>)>>,
                           <<<<"a">>, PyDict(<<<<NOTE, PyStr(<<"b">>)>>,
                                               <<CODE, PyStr(<<>>)>>>>)>>>>))),
      PyStr(dumps(PyDict(<<<<<<>>, PyStr(<<"M", "F">>)>>>>))),
      PyStr(<<LBRACE, StrTok(<<"b">>), COLON>> \o dumps(Rec(<<>>)) \o <<COMMA>>
            \o <<StrTok(<<"b">>), COLON>> \o dumps(Rec(<<"M", "F">>)) \o <<RBRACE>>) }

(* ------------------------------- actions ------------------------------- *)

\* the call made last, its result, and the state it was made in
Call(op, name, new_name, secret, file, r) ==
    [op |-> op, name |-> name, new_name |-> new_name, secret |-> secret,
     file |-> file, ret |-> r.ret, wrote |-> r.wrote,
     creds |-> creds, store |-> store]

Apply(op, name, new_name, secret, file, r) ==
    /\ Len(r.creds.v) <= MaxServices
    /\ creds' = r.creds
    /\ store' = r.store
    /\ last' = Call(op, name, new_name, secret, file, r)
    /\ out' = PyNone
    /\ UNCHANGED <<peer, disk, fresh, run>>

\* no run of the command line program is in progress
NoRun == [pc |-> "none"]

Init ==
    /\ store = PyNone
    /\ creds = load_creds(store, TRUE).val
    /\ last = [op |-> "init", name |-> PyNone, new_name |-> PyNone,
               secret |-> PyNone, file |-> PyNone, ret |-> "None",
               wrote |-> FALSE, creds |-> EmptyDict, store |-> PyNone]
    /\ out = PyNone
    /\ peer = PyNone
    /\ disk = PyNone
    /\ fresh = PyNone
    /\ run = NoRun

\* a later run of the program: __init__ loads the set from the keyring
Construct ==
    LET r == load_creds(store, TRUE)
    IN  /\ ~r.raised
        /\ Apply("init", PyNone, PyNone, PyNone, PyNone,
                 Result(r.val, store, "None", FALSE))

AddService ==
    \E name \in Names, secret \in Secrets :
        Apply("add", PyStr(name), PyNone, PyStr(secret), PyNone,
              add_service(creds, store, PyStr(name), PyStr(secret)))

EditService ==
    \E old_name \in Names,
       new_name \in {PyNone} \cup {PyStr(n) : n \in Names},
       secret \in {PyNone} \cup {PyStr(s) : s \in Secrets} :
        Apply("edit", PyStr(old_name), new_name, secret, PyNone,
              edit_service(creds, store, PyStr(old_name), new_name, secret))

RmService ==
    \E service \in Names :
        Apply("rm", PyStr(service), PyNone, PyNone, PyNone,
              rm_service(creds, store, PyStr(service)))

ImportCredsFromFile ==
    \E file \in Files :
        Apply("import", PyNone, PyNone, PyNone, file,
              import_creds_from_file(creds, store, file))

Next ==
    \/ Construct
    \/ AddService
    \/ EditService
    \/ RmService
    \/ ImportCredsFromFile

Spec == Init /\ [][Next]_vars

(* ----------------------- export and import ----------------------------- *)

RtNames == {<<"a">>, <<"U+00E9">>, <<"U+00DD">>}

RtSecrets == {<<"M", "F">>, <<"M", "1">>}

\* the set is changed while no dump file is around: the export that is
\* imported is one of the set as it is
RtApply(op, name, new_name, secret, file, r) ==
    /\ disk = PyNone
    /\ Len(r.creds.v) <= MaxServices
    /\ creds' = r.creds
    /\ store' = r.store
    /\ last' = Call(op, name, new_name, secret, file, r)
    /\ out' = PyNone
    /\ fresh' = PyNone
    /\ UNCHANGED <<peer, disk, run>>

RtAddService ==
    \E name \in RtNames, secret \in RtSecrets :
        RtApply("add", PyStr(name), PyNone, PyStr(secret), PyNone,
                add_service(creds, store, PyStr(name), PyStr(secret)))

RtEditService ==
    \E old_name \in RtNames,
       new_name \in {PyNone} \cup {PyStr(n) : n \in RtNames},
       secret \in {PyNone} \cup {PyStr(x) : x \in RtSecrets} :
        RtApply("edit", PyStr(old_name), new_name, secret, PyNone,
                edit_service(creds, store, PyStr(old_name), new_name, secret))

RtRmService ==
    \E service \in RtNames :
        RtApply("rm", PyStr(service), PyNone, PyNone, PyNone,
                rm_service(creds, store, PyStr(service)))

ExportCredsToFile ==
    LET r == export_creds_to_file(creds)
    IN  /\ disk' = r.file
        /\ last' = Call("export", PyNone, PyNone, PyNone, PyNone,
                        Result(creds, store, r.ret, FALSE))
        /\ out' = PyNone
        /\ fresh' = PyNone
        /\ UNCHANGED <<creds, store, peer, run>>

\* right after an export: a manager is constructed on an empty keyring, on
\* a host with some preferred encoding, and imports the dump file
FreshImport ==
    /\ last.op = "export"
    /\ disk.t = "bytes"
    /\ fresh = PyNone
    /\ \E encoding \in Encodings :
          LET c0 == load_creds(PyNone, TRUE).val
              r  == import_creds_from_path(c0, PyNone, disk, encoding)
          IN  fresh' = [t |-> "manager", creds |-> r.creds, store |-> r.store,
                        ret |-> r.ret, encoding |-> encoding]
    /\ UNCHANGED <<creds, store, last, out, peer, disk, run>>

\* os.unlink of the dump file
CleanupFile ==
    /\ disk.t = "bytes"
    /\ disk' = PyNone
    /\ fresh' = PyNone
    /\ UNCHANGED <<creds, store, last, out, peer, run>>

RtNext ==
    \/ RtAddService
    \/ RtEditService
    \/ RtRmService
    \/ ExportCredsToFile
    \/ FreshImport
    \/ CleanupFile

SpecRoundTrip == Init /\ [][RtNext]_vars

(* ------------------------------ listing -------------------------------- *)

LsNames == {<<>>, <<"a">>, <<"a", "b">>, <<"b">>, <<"B">>}

LsSecret == <<"M", "F">>

\* a dump file whose names are not in ascending order
LsFile ==
    PyStr(dumps(PyDict(<<<<<<"b">>, Rec(LsSecret)>>, <<<<"B">>, Rec(LsSecret)>>,
                         <<<<"a">>, Rec(<<>>)>>>>)))

LsApply(op, name, new_name, secret, file, r) ==
    /\ Len(r.creds.v) <= MaxListed
    /\ creds' = r.creds
    /\ store' = r.store
    /\ last' = Call(op, name, new_name, secret, file, r)
    /\ out' = PyNone
    /\ UNCHANGED <<peer, disk, fresh, run>>

LsAddService ==
    \E name \in LsNames :
        LsApply("add", PyStr(name), PyNone, PyStr(LsSecret), PyNone,
                add_service(creds, store, PyStr(name), PyStr(LsSecret)))

LsEditService ==
    \E old_name \in LsNames, new_name \in {PyStr(n) : n \in LsNames} :
        LsApply("edit", PyStr(old_name), new_name, PyNone, PyNone,
                edit_service(creds, store, PyStr(old_name), new_name, PyNone))

LsRmService ==
    \E service \in LsNames :
        LsApply("rm", PyStr(service), PyNone, PyNone, PyNone,
                rm_service(creds, store, PyStr(service)))

LsImportCredsFromFile ==
    LsApply("import", PyNone, PyNone, PyNone, LsFile,
            import_creds_from_file(creds, store, LsFile))

GetServices ==
    /\ out' = get_services(creds)
    /\ last' = Call("get_services", PyNone, PyNone, PyNone, PyNone,
                    Result(creds, store, "list", FALSE))
    /\ UNCHANGED <<creds, store, peer, disk, fresh, run>>

LsNext ==
    \/ LsAddService
    \/ LsEditService
    \/ LsRmService
    \/ LsImportCredsFromFile
    \/ GetServices

SpecList == Init /\ [][LsNext]_vars

(* ------------------------------ queries -------------------------------- *)

QuNames == {<<"a">>, <<"b">>}

QuSecrets == {<<"M", "F">>, <<"M", "1">>, <<"M">>}

\* a dump file with one entry
QuFile == PyStr(dumps(PyDict(<<<<<<"b">>, Rec(<<"M", "F">>)>>>>)))

QuAddService ==
    \E name \in QuNames, secret \in QuSecrets :
        Apply("add", PyStr(name), PyNone, PyStr(secret), PyNone,
              add_service(creds, store, PyStr(name), PyStr(secret)))

QuEditService ==
    \E old_name \in QuNames,
       new_name \in {PyNone} \cup {PyStr(n) : n \in QuNames},
       secret \in {PyNone} \cup {PyStr(s) : s \in QuSecrets} :
        Apply("edit", PyStr(old_name), new_name, secret, PyNone,
              edit_service(creds, store, PyStr(old_name), new_name, secret))

QuRmService ==
    \E service \in QuNames :
        Apply("rm", PyStr(service), PyNone, PyNone, PyNone,
              rm_service(creds, store, PyStr(service)))

QuImportCredsFromFile ==
    Apply("import", PyNone, PyNone, PyNone, QuFile,
          import_creds_from_file(creds, store, QuFile))

\* load_creds(init_new) called on its own: the value goes to the caller,
\* self.creds is not assigned
LoadCreds ==
    \E init_new \in BOOLEAN :
        LET r == load_creds(store, init_new)
        IN  /\ out' = [t |-> "loaded", init_new |-> init_new,
                       raised |-> r.raised, val |-> r.val]
            /\ last' = Call("load", PyNone, PyNone, PyNone, PyNone,
                            Result(creds, store, "value", FALSE))
            /\ UNCHANGED <<creds, store, peer, disk, fresh, run>>

\* values of the one-time password before formatting
OtpValues == {0, 42, 123456, 999999}

GetTotpCode ==
    \E service \in QuNames, otp \in OtpValues :
        LET r == get_totp_code(creds, PyStr(service), otp)
        IN  /\ out' = [t |-> "totp", ret |-> r.ret, code |-> r.code,
                       secret |-> r.secret, otp |-> otp]
            /\ last' = Call("totp", PyStr(service), PyNone, PyNone, PyNone,
                            Result(creds, store, r.ret, FALSE))
            /\ UNCHANGED <<creds, store, peer, disk, fresh, run>>

QuNext ==
    \/ GetTotpCode
    \/ QuAddService
    \/ QuEditService
    \/ QuRmService
    \/ QuImportCredsFromFile
    \/ LoadCreds

SpecQuery == Init /\ [][QuNext]_vars

(* ---------------------------- two processes ---------------------------- *)

\* Two processes hold one KeyringTotpGenerator each, on the same keyring
\* entry: creds is the set of process 1, peer.creds that of process 2.

Procs == {1, 2}

\* self.creds of a process
Mem(who) == IF who = 1 THEN creds ELSE peer.creds

\* the process whose set_password call was the last one, 0 when none was
LastWriter == IF "writer" \in DOMAIN last THEN last.writer ELSE 0

\* one method call of one process: only set_password and get_password touch
\* what the processes share
TwApply(who, op, name, r) ==
    /\ Len(r.creds.v) <= MaxServices
    /\ IF who = 1 THEN creds' = r.creds /\ peer' = peer
       ELSE peer' = [t |-> "manager", creds |-> r.creds] /\ creds' = creds
    /\ store' = r.store
    /\ last' = [op |-> op, who |-> who, name |-> name, ret |-> r.ret,
                wrote |-> r.wrote, creds |-> creds, peer |-> peer,
                store |-> store,
                writer |-> IF r.wrote THEN who ELSE LastWriter]
    /\ UNCHANGED <<out, disk, fresh, run>>

\* a process starts: __init__ loads the set from the keyring
TwConstruct ==
    \E who \in Procs :
        LET r == load_creds(store, TRUE)
        IN  /\ ~r.raised
            /\ TwApply(who, "init", PyNone, Result(r.val, store, "None", FALSE))

TwAddService ==
    \E who \in Procs, name \in QuNames, secret \in RtSecrets :
        /\ (who = 1 \/ peer.t = "manager")
        /\ TwApply(who, "add", PyStr(name),
                   add_service(Mem(who), store, PyStr(name), PyStr(secret)))

TwEditService ==
    \E who \in Procs, old_name \in QuNames,
       new_name \in {PyNone} \cup {PyStr(n) : n \in QuNames},
       secret \in {PyNone} \cup {PyStr(s) : s \in RtSecrets} :
        /\ (who = 1 \/ peer.t = "manager")
        /\ TwApply(who, "edit", PyStr(old_name),
                   edit_service(Mem(who), store, PyStr(old_name), new_name, secret))

TwRmService ==
    \E who \in Procs, service \in QuNames :
        /\ (who = 1 \/ peer.t = "manager")
        /\ TwApply(who, "rm", PyStr(service),
                   rm_service(Mem(who), store, PyStr(service)))

TwImportCredsFromFile ==
    \E who \in Procs :
        /\ (who = 1 \/ peer.t = "manager")
        /\ TwApply(who, "import", PyNone,
                   import_creds_from_file(Mem(who), store, QuFile))

TwNext ==
    \/ TwConstruct
    \/ TwAddService
    \/ TwEditService
    \/ TwRmService
    \/ TwImportCredsFromFile

SpecTwo == Init /\ [][TwNext]_vars

(* ----------------------------- command line --------------------------- *)

\* One run of main() at a time.  run.pc is the input() call the run waits
\* at, or "exit" once the process has ended with run.code; creds is the set
\* of the run's KeyringTotpGenerator, disk the file named by --import or
\* --export, out what the run printed and put on the clipboard.

YES_ANSWERS == {<<"y">>, <<"y", "e", "s">>}

\* str.lower()
lower_str(s) == [i \in 1..Len(s) |-> lower(s[i])]

CliNames == {<<>>, <<"a">>}

CliSecrets == {<<"M", "F">>, <<"M", "1">>, <<"M">>, <<"U+00E9">>}

\* answers to the confirmation prompt
Answers ==
    { <<"y">>, <<"Y">>, <<"y", "e", "s">>, <<"Y", "E", "S">>, <<"Y", "e", "s">>,
      <<>>, <<"n">>, <<"y", "e">>, <<" ", "y">>, <<"n", "o">> }

\* answers to the prompt of service_menu
Selections == {<<>>, <<"x">>, <<"0">>, <<"1">>, <<"2">>, <<"3">>, <<"-", "1">>}

\* the file named by --import: absent, cut off, or a dump
CliImportFiles ==
    { PyNone,
      PyBytes(write_utf8(<<LBRACE, StrTok(<<"a">>), COLON>>)),
      PyBytes(write_utf8(<<NULL>>)),
      PyBytes(write_utf8(dumps(PyDict(<<<<<<"a">>, Rec(<<"M", "F">>)>>>>)))),
      PyBytes(write_utf8(dumps(PyDict(<<<<<<>>, Rec(<<"M", "F">>)>>>>)))) }

\* the file named by --export before the run: absent, or an older dump
CliExportFiles ==
    { PyNone,
      PyBytes(write_utf8(dumps(PyDict(<<<<<<"a">>, Rec(<<"M", "1">>)>>>>)))) }

Tty(msg, printed, clip) == [t |-> "tty", msg |-> msg, printed |-> printed, clip |-> clip]

\* a run that has parsed its arguments and constructed its manager
NewRun(mode, pc, copy, quiet) ==
    [pc |-> pc, mode |-> mode, service |-> PyNone, name |-> PyNone,
     answer |-> PyNone, copy |-> copy, quiet |-> quiet,
     code |-> -1, ret |-> "none", why |-> "running", disk0 |-> PyNone]

\* sys.exit(code), or the end of main() (code 0), or an exception that
\* nothing catches (code 1)
Exit(r, code, why, ret) == [r EXCEPT !.pc = "exit", !.code = code, !.why = why, !.ret = ret]

\* the record of last when no call has been made
NoCall ==
    [op |-> "init", name |-> PyNone, new_name |-> PyNone,
     secret |-> PyNone, file |-> PyNone, ret |-> "None",
     wrote |-> FALSE, creds |-> EmptyDict, store |-> PyNone]

\* the process has ended: the keyring entry is what remains of the run
CliEnd ==
    /\ run.pc = "exit"
    /\ run' = NoRun
    /\ out' = PyNone
    /\ disk' = PyNone
    /\ last' = NoCall
    /\ UNCHANGED <<creds, store, peer, fresh>>

\* KeyringTotpGenerator() at the start of a run, and the state the run
\* started in
CliConstruct(d) ==
    LET r == load_creds(store, TRUE)
    IN  /\ run.pc = "none"
        /\ ~r.raised
        /\ creds' = r.val
        /\ disk' = d
        /\ last' = [op |-> "cli", name |-> PyNone, new_name |-> PyNone,
                    secret |-> PyNone, file |-> d, ret |-> "None",
                    wrote |-> FALSE, creds |-> r.val, store |-> store]
        /\ UNCHANGED <<store, peer, fresh>>

\* the keyring raises RuntimeError in the constructor
StartUnavailable ==
    /\ run.pc = "none"
    /\ run' = Exit(NewRun("any", "exit", FALSE, FALSE), 1, "unavailable", "RuntimeError")
    /\ out' = Tty("keyring_error", PyNone, PyNone)
    /\ disk' = PyNone
    /\ last' = [op |-> "cli", name |-> PyNone, new_name |-> PyNone,
                secret |-> PyNone, file |-> PyNone, ret |-> "None",
                wrote |-> FALSE, creds |-> creds, store |-> store]
    /\ UNCHANGED <<creds, store, peer, fresh>>

StartVersion ==
    /\ CliConstruct(PyNone)
    /\ run' = Exit(NewRun("version", "exit", FALSE, FALSE), 0, "version", "none")
    /\ out' = Tty("version", PyNone, PyNone)

StartAdd ==
    /\ CliConstruct(PyNone)
    /\ run' = NewRun("add", "add_name", FALSE, FALSE)
    /\ out' = Tty("none", PyNone, PyNone)

\* service_menu up to its prompt: without services it exits with 1
EnterMenu(r) ==
    IF Len(get_services(creds').v) = 0
    THEN /\ run' = Exit(r, 1, "empty", "none")
         /\ out' = Tty("no_data", PyNone, PyNone)
    ELSE /\ run' = r
         /\ out' = Tty("none", PyNone, PyNone)

StartRemove ==
    /\ CliConstruct(PyNone)
    /\ EnterMenu(NewRun("remove", "menu", FALSE, FALSE))

StartEdit ==
    /\ CliConstruct(PyNone)
    /\ EnterMenu(NewRun("edit", "menu", FALSE, FALSE))

StartImport ==
    \E d \in CliImportFiles :
        /\ CliConstruct(d)
        /\ run' = [NewRun("import", "confirm", FALSE, FALSE) EXCEPT !.disk0 = d]
        /\ out' = Tty("none", PyNone, PyNone)

StartExport ==
    \E d \in CliExportFiles :
        /\ CliConstruct(d)
        /\ run' = [NewRun("export", "confirm", FALSE, FALSE) EXCEPT !.disk0 = d]
        /\ out' = Tty("none", PyNone, PyNone)

\* service_menu(..., list_services=True)
StartList ==
    /\ CliConstruct(PyNone)
    /\ IF Len(get_services(creds').v) = 0
       THEN /\ run' = Exit(NewRun("list", "exit", FALSE, FALSE), 1, "empty", "none")
            /\ out' = Tty("no_data", PyNone, PyNone)
       ELSE /\ run' = Exit(NewRun("list", "exit", FALSE, FALSE), 0, "done", "none")
            /\ out' = Tty("services", PyNone, PyNone)

\* Generate with one message for every binascii.Error
Generate_one_message(r, c, service, otp, clipboard) ==
    LET g == get_totp_code(c, service, otp)
        rs == [r EXCEPT !.service = service]
    IN  IF g.ret = "str"
        THEN /\ run' = Exit(rs, 0, "done", g.ret)
             /\ out' = Tty(IF r.copy /\ ~clipboard THEN "clipboard_error" ELSE "none",
                           IF r.quiet /\ r.copy THEN PyNone ELSE g.code,
                           IF r.copy /\ clipboard THEN g.code ELSE PyNone)
        ELSE IF g.ret = "TypeError"
        THEN /\ run' = Exit(rs, 1, "raised", g.ret)
             /\ out' = Tty("type_error", PyNone, PyNone)
        ELSE IF g.ret = "binascii.Error: Non-base32 digit found"
        THEN /\ run' = Exit(rs, 1, "raised", g.ret)
             /\ out' = Tty("error", PyNone, PyNone)
        ELSE IF g.ret = "binascii.Error: Incorrect padding"
        THEN /\ run' = Exit(rs, 1, "raised", g.ret)
             /\ out' = Tty("error", PyNone, PyNone)
        ELSE /\ run' = Exit(rs, 1, "raised", g.ret)
             /\ out' = Tty("traceback", PyNone, PyNone)

\* lines 281-312: the code of the service is generated, printed and copied
Generate(r, c, service, otp, clipboard) ==
    LET g == get_totp_code(c, service, otp)
        rs == [r EXCEPT !.service = service]
    IN  IF g.ret = "str"
        THEN /\ run' = Exit(rs, 0, "done", g.ret)
             /\ out' = Tty(IF r.copy /\ ~clipboard THEN "clipboard_error" ELSE "none",
                           IF r.quiet /\ r.copy THEN PyNone ELSE g.code,
                           IF r.copy /\ clipboard THEN g.code ELSE PyNone)
        ELSE IF g.ret = "TypeError"
        THEN /\ run' = Exit(rs, 1, "raised", g.ret)
             /\ out' = Tty("type_error", PyNone, PyNone)
        ELSE IF g.ret = "binascii.Error: Non-base32 digit found"
        THEN /\ run' = Exit(rs, 1, "raised", g.ret)
             /\ out' = Tty("non_base32_digit", PyNone, PyNone)
        ELSE IF g.ret = "binascii.Error: Incorrect padding"
        THEN /\ run' = Exit(rs, 1, "raised", g.ret)
             /\ out' = Tty("incorrect_padding", PyNone, PyNone)
        ELSE /\ run' = Exit(rs, 1, "raised", g.ret)
             /\ out' = Tty("traceback", PyNone, PyNone)

\* no operation flag, without -s: the service is picked from the menu
StartGenerate ==
    \E copy \in BOOLEAN, quiet \in BOOLEAN :
        /\ CliConstruct(PyNone)
        /\ EnterMenu(NewRun("generate", "menu", copy, quiet))

\* no operation flag, with -s service
StartGenerateService ==
    \E copy \in BOOLEAN, quiet \in BOOLEAN, service \in CliNames \ {<<>>} :
        /\ CliConstruct(PyNone)
        /\ IF ~IsIn(get_services(creds').v, service)
           THEN /\ run' = Exit([NewRun("generate", "exit", copy, quiet)
                                   EXCEPT !.service = PyStr(service)],
                               1, "no_such_service", "none")
                /\ out' = Tty("no_such_service", PyNone, PyNone)
           ELSE \E otp \in OtpValues, clipboard \in BOOLEAN :
                   Generate(NewRun("generate", "exit", copy, quiet), creds',
                            PyStr(service), otp, clipboard)

IsNumber(s) == Len(s) > 0 /\ \A i \in 1..Len(s) : IsIn(DIGITS, s[i])

\* int(user_in): an optional sign and decimal digits, ValueError otherwise
py_int(s) ==
    LET signed == Len(s) > 0 /\ s[1] \in {"-", "+"}
        digits == IF signed THEN SubSeq(s, 2, Len(s)) ELSE s
    IN  IF ~IsNumber(digits) THEN [ok |-> FALSE, n |-> 0]
        ELSE [ok |-> TRUE,
              n |-> IF signed /\ s[1] = "-" THEN 0 - int_of_str(digits)
                    ELSE int_of_str(digits)]

\* the test of service_menu without the - 1
menu_sel_off_by_one(options, user_in) ==
    LET p == py_int(user_in)
    IN  IF ~p.ok THEN [ok |-> FALSE, sel |-> 0]
        ELSE IF p.n \in 0..(Len(options) - 1) THEN [ok |-> TRUE, sel |-> p.n]
        ELSE [ok |-> FALSE, sel |-> 0]

\* one round of the loop of service_menu: sel = int(user_in) - 1 is accepted
\* when it is in range(0, i)
menu_sel(options, user_in) ==
    LET p == py_int(user_in)
    IN  IF ~p.ok THEN [ok |-> FALSE, sel |-> 0]
        ELSE IF (p.n - 1) \in 0..(Len(options) - 1) THEN [ok |-> TRUE, sel |-> p.n - 1]
        ELSE [ok |-> FALSE, sel |-> 0]

\* the answer to the prompt of service_menu
MenuInput ==
    /\ run.pc = "menu"
    /\ \E user_in \in Selections :
          LET options == get_services(creds).v
              m == menu_sel(options, user_in)
              ra == [run EXCEPT !.answer = PyStr(user_in)]
          IN  IF ~m.ok
              THEN /\ out' = [out EXCEPT !.msg = "invalid_selection"]
                   /\ run' = ra
                   /\ UNCHANGED <<creds, store>>
              ELSE LET service == PyStr(options[m.sel + 1])
                   IN  IF run.mode = "remove"
                       THEN LET r == rm_service(creds, store, service)
                            IN  /\ creds' = r.creds
                                /\ store' = r.store
                                /\ run' = Exit([ra EXCEPT !.service = service],
                                               0, "done", r.ret)
                                /\ out' = Tty("removed", PyNone, PyNone)
                       ELSE IF run.mode = "edit"
                       THEN /\ run' = [ra EXCEPT !.pc = "edit_name", !.service = service]
                            /\ out' = Tty("none", PyNone, PyNone)
                            /\ UNCHANGED <<creds, store>>
                       ELSE /\ \E otp \in OtpValues, clipboard \in BOOLEAN :
                                  Generate(ra, creds, service, otp, clipboard)
                            /\ UNCHANGED <<creds, store>>
    /\ UNCHANGED <<last, peer, disk, fresh>>

\* --add: the name is read
AddName ==
    /\ run.pc = "add_name"
    /\ \E name \in CliNames :
          run' = [run EXCEPT !.pc = "add_secret", !.name = PyStr(name)]
    /\ UNCHANGED <<creds, store, last, out, peer, disk, fresh>>

\* --add: the secret is read and add_service is called
AddSecret ==
    /\ run.pc = "add_secret"
    /\ \E secret \in CliSecrets :
          LET r == add_service(creds, store, run.name, PyStr(secret))
          IN  /\ Len(r.creds.v) <= MaxServices
              /\ creds' = r.creds
              /\ store' = r.store
              /\ run' = Exit(run, 0, "done", r.ret)
              /\ out' = Tty(IF r.ret = "True" THEN "added" ELSE "add_error",
                            PyNone, PyNone)
    /\ UNCHANGED <<last, peer, disk, fresh>>

\* --edit: the new name is read, again while it names a service
EditName ==
    /\ run.pc = "edit_name"
    /\ \E typed \in CliNames :
          LET name == IF typed = <<>> THEN PyNone ELSE PyStr(typed)
          IN  IF name.t = "none" \/ ~IsIn(get_services(creds).v, typed)
              THEN /\ run' = [run EXCEPT !.pc = "edit_secret", !.name = name]
                   /\ out' = out
              ELSE /\ out' = [out EXCEPT !.msg = "name_exists"]
                   /\ run' = run
    /\ UNCHANGED <<creds, store, last, peer, disk, fresh>>

\* --edit: the new secret is read and edit_service is called
EditSecret ==
    /\ run.pc = "edit_secret"
    /\ \E typed \in CliSecrets \cup {<<>>} :
          LET secret == IF typed = <<>> THEN PyNone ELSE PyStr(typed)
              r == edit_service(creds, store, run.service, run.name, secret)
          IN  /\ creds' = r.creds
              /\ store' = r.store
              /\ run' = Exit(run, 0, "done", r.ret)
              /\ out' = Tty(IF r.ret = "True" THEN "updated" ELSE "update_error",
                            PyNone, PyNone)
    /\ UNCHANGED <<last, peer, disk, fresh>>

\* the confirmation of --import and --export without .lower()
Confirmed_exact(answer) == answer \in YES_ANSWERS

\* input(...).lower() not in YES_ANSWERS
Confirmed(answer) == lower_str(answer) \in YES_ANSWERS

\* --import: the answer to the warning, then import_creds_from_file
ConfirmImport ==
    /\ run.pc = "confirm" /\ run.mode = "import"
    /\ \E answer \in Answers, encoding \in Encodings :
          LET ra == [run EXCEPT !.answer = PyStr(answer)]
              r == import_creds_from_path(creds, store, disk, encoding)
          IN  IF ~Confirmed(answer)
              THEN /\ run' = Exit(ra, 1, "declined", "none")
                   /\ out' = Tty("not_importing", PyNone, PyNone)
                   /\ UNCHANGED <<creds, store>>
              ELSE IF r.ret \in {"True", "False"}
              THEN /\ Len(r.creds.v) <= MaxServices
                   /\ creds' = r.creds
                   /\ store' = r.store
                   /\ run' = Exit(ra, 0, "done", r.ret)
                   /\ out' = Tty(IF r.ret = "True" THEN "imported" ELSE "none",
                                 PyNone, PyNone)
              ELSE /\ run' = Exit(ra, 1, "raised", r.ret)
                   /\ out' = Tty("traceback", PyNone, PyNone)
                   /\ UNCHANGED <<creds, store>>
    /\ UNCHANGED <<last, peer, disk, fresh>>

\* --export: the answer to the warning, then export_creds_to_file; open()
\* of a path that cannot be written raises and nothing catches it
ConfirmExport ==
    /\ run.pc = "confirm" /\ run.mode = "export"
    /\ \E answer \in Answers, writable \in BOOLEAN :
          LET ra == [run EXCEPT !.answer = PyStr(answer)]
              r == export_creds_to_file(creds)
          IN  IF ~Confirmed(answer)
              THEN /\ run' = Exit(ra, 1, "declined", "none")
                   /\ out' = Tty("not_exporting", PyNone, PyNone)
                   /\ disk' = disk
              ELSE IF writable
              THEN /\ run' = Exit(ra, 0, "done", r.ret)
                   /\ out' = Tty("exported", PyNone, PyNone)
                   /\ disk' = r.file
              ELSE /\ run' = Exit(ra, 1, "raised", "OSError")
                   /\ out' = Tty("traceback", PyNone, PyNone)
                   /\ disk' = disk
    /\ UNCHANGED <<creds, store, last, peer, fresh>>

CliNext ==
    \/ StartUnavailable
    \/ StartVersion
    \/ StartAdd
    \/ StartRemove
    \/ StartEdit
    \/ StartImport
    \/ StartExport
    \/ StartList
    \/ StartGenerate
    \/ StartGenerateService
    \/ MenuInput
    \/ AddName
    \/ AddSecret
    \/ EditName
    \/ EditSecret
    \/ ConfirmImport
    \/ ConfirmExport
    \/ CliEnd

SpecCli == Init /\ [][CliNext]_vars

(* --------------------------- failing keyring --------------------------- *)

\* keyring.set_password may raise (PasswordSetError): the exception leaves
\* save_creds and the method that called it, the blob stays as it was.

\* a failed write that also puts the set back as it was before the call
save_failed_rollback(c, st, r) == Result(c, st, "PasswordSetError", FALSE)

\* the outcome of a method whose store write raises: c and st are the set
\* and the blob before the call, r the outcome had the write succeeded
save_failed(c, st, r) == Result(r.creds, st, "PasswordSetError", FALSE)

\* the outcome of a method when the keyring works (ok) or fails
Outcome(r, ok) == IF r.wrote /\ ~ok THEN save_failed(creds, store, r) ELSE r

FlAddService ==
    \E name \in QuNames, secret \in RtSecrets, ok \in BOOLEAN :
        Apply("add", PyStr(name), PyNone, PyStr(secret), PyNone,
              Outcome(add_service(creds, store, PyStr(name), PyStr(secret)), ok))

FlEditService ==
    \E old_name \in QuNames,
       new_name \in {PyNone} \cup {PyStr(n) : n \in QuNames},
       secret \in {PyNone} \cup {PyStr(s) : s \in RtSecrets},
       ok \in BOOLEAN :
        Apply("edit", PyStr(old_name), new_name, secret, PyNone,
              Outcome(edit_service(creds, store, PyStr(old_name), new_name, secret), ok))

FlRmService ==
    \E service \in QuNames, ok \in BOOLEAN :
        Apply("rm", PyStr(service), PyNone, PyNone, PyNone,
              Outcome(rm_service(creds, store, PyStr(service)), ok))

FlImportCredsFromFile ==
    \E ok \in BOOLEAN :
        Apply("import", PyNone, PyNone, PyNone, QuFile,
              Outcome(import_creds_from_file(creds, store, QuFile), ok))

FlNext ==
    \/ FlAddService
    \/ FlEditService
    \/ FlRmService
    \/ FlImportCredsFromFile

SpecFail == Init /\ [][FlNext]_vars

(* ------------------------------ properties ----------------------------- *)

\* load_creds() on the store returns a mapping equal to c
StoreMatches(c, st) ==
    LET r == load_creds(st, FALSE)
    IN  ~r.raised /\ PyEq(r.val, c)

\* the call made last left the in-memory set and the blob as they were and
\* did not invoke the store's set operation
NothingChanged ==
    /\ creds = last.creds
    /\ store = last.store
    /\ ~last.wrote

\* every entry of the set before the call, except those named in but, is
\* still there with the same record
OthersUnchanged(but) ==
    \A k \in Keys(last.creds) \ but :
        HasKey(creds, k) /\ PyEq(DictGet(creds, k), DictGet(last.creds, k))

\* C1: add_service with a name that is already a key returns False and
\* changes nothing: set and blob are as before and nothing is written,
\* whatever the secret.
C1_AddDuplicateRejected ==
    (last.op = "add" /\ HasKey(last.creds, last.name.v))
        => (last.ret = "False" /\ NothingChanged)

C1_Witness ==
    /\ last.op = "add"
    /\ HasKey(last.creds, last.name.v)
    /\ ~PyEq(DictGet(last.creds, last.name.v), Rec(last.secret.v))
    /\ last.ret = "False"

\* C2: add_service with a new name returns True for every secret string;
\* the set is the previous set plus exactly the entry name -> {code: secret},
\* and it has been persisted.
C2_AddInsertsOne ==
    (last.op = "add" /\ ~HasKey(last.creds, last.name.v))
        => /\ last.ret = "True"
           /\ Keys(creds) = Keys(last.creds) \cup {last.name.v}
           /\ Len(creds.v) = Len(last.creds.v) + 1
           /\ PyEq(DictGet(creds, last.name.v), Rec(last.secret.v))
           /\ OthersUnchanged({})
           /\ last.wrote
           /\ StoreMatches(creds, store)

C2_Witness ==
    /\ last.op = "add"
    /\ ~HasKey(last.creds, last.name.v)
    /\ last.secret.v = <<"M", "1">>
    /\ Len(last.creds.v) >= 1
    /\ last.ret = "True"

C4_EditChangesOnlyTarget ==
    (last.op = "edit" /\ last.ret = "True")
        => LET old    == last.name.v
               target == IF Truthy(last.new_name) THEN last.new_name.v ELSE old
           IN  /\ HasKey(last.creds, old)
               /\ HasKey(creds, target)
               /\ (target # old => ~HasKey(creds, old))
               /\ LET rec0 == DictGet(last.creds, old)
                      rec1 == DictGet(creds, target)
                  IN  IF Truthy(last.secret)
                      THEN /\ IsDict(rec0) /\ IsDict(rec1)
                           /\ Keys(rec1) = Keys(rec0) \cup {CODE}
                           /\ DictGet(rec1, CODE) = last.secret
                           /\ \A f \in Keys(rec0) \ {CODE} :
                                  PyEq(DictGet(rec1, f), DictGet(rec0, f))
                      ELSE PyEq(rec1, rec0)
               /\ Keys(creds) = (Keys(last.creds) \ {old}) \cup {target}
               /\ OthersUnchanged({old})
               /\ Len(creds.v) = Len(last.creds.v)
               /\ last.wrote
               /\ StoreMatches(creds, store)

C4_Witness ==
    /\ last.op = "edit"
    /\ last.ret = "True"
    /\ Truthy(last.new_name)
    /\ Truthy(last.secret)
    /\ Len(last.creds.v) = 2
    /\ IsDict(DictGet(last.creds, last.name.v))
    /\ HasKey(DictGet(last.creds, last.name.v), NOTE)
    /\ DictGet(DictGet(last.creds, last.name.v), CODE) # last.secret

\* C5: edit_service whose new_name is the name of another existing entry
\* returns False and leaves set and blob unchanged, also when a secret is
\* supplied: the code of old_name is not overwritten and nothing is written.
C5_EditCollisionRejected ==
    (/\ last.op = "edit"
     /\ IsStr(last.new_name)
     /\ HasKey(last.creds, last.new_name.v)
     /\ last.new_name.v # last.name.v)
        => (last.ret = "False" /\ NothingChanged)

C5_Witness ==
    /\ last.op = "edit"
    /\ IsStr(last.new_name)
    /\ HasKey(last.creds, last.new_name.v)
    /\ last.new_name.v # last.name.v
    /\ HasKey(last.creds, last.name.v)
    /\ Truthy(last.secret)
    /\ ~PyEq(DictGet(last.creds, last.name.v), Rec(last.secret.v))
    /\ last.ret = "False"

\* an edit of an existing service that names its own current name as the
\* new name and supplies a secret
SelfRename ==
    /\ last.op = "edit"
    /\ HasKey(last.creds, last.name.v)
    /\ last.new_name = PyStr(last.name.v)
    /\ Truthy(last.secret)

\* C6 as claimed: renaming a service to its own current name is no name
\* collision, so the call with a secret S returns True and the code of the
\* service becomes S.
C6_SelfRenameAccepted ==
    SelfRename
        => /\ last.ret = "True"
           /\ HasKey(creds, last.name.v)
           /\ IsDict(DictGet(creds, last.name.v))
           /\ HasKey(DictGet(creds, last.name.v), CODE)
           /\ DictGet(DictGet(creds, last.name.v), CODE) = last.secret

\* C6 as amended: renaming an existing service to its own current name is
\* rejected as a duplicate name: the call returns False, also with a secret
\* S, the code of the service is not changed and nothing is written.
C6_SelfRenameRejected ==
    SelfRename => (last.ret = "False" /\ NothingChanged)

C6_Witness ==
    /\ SelfRename
    /\ ~PyEq(DictGet(last.creds, last.name.v), Rec(last.secret.v))
    /\ last.ret = "False"
    /\ PyEq(DictGet(creds, last.name.v), DictGet(last.creds, last.name.v))

\* C7: edit_service with neither a new name nor a secret (None or empty for
\* both) returns False before any store write: set and blob are unchanged
\* and the store's set operation is not invoked.
C7_EditNoChangeRejected ==
    (last.op = "edit" /\ ~Truthy(last.new_name) /\ ~Truthy(last.secret))
        => (last.ret = "False" /\ NothingChanged)

C7_Witness ==
    /\ last.op = "edit"
    /\ last.new_name = PyNone
    /\ last.secret = PyNone
    /\ HasKey(last.creds, last.name.v)
    /\ IsStr(last.store)
    /\ last.ret = "False"

\* C8: rm_service returns True for every name, present or absent, and never
\* raises; afterwards the name is no key, the other entries are unchanged
\* and the result is persisted; on a set that does not hold the name (as
\* after a first rm_service of it) the set stays as it is.
C8_RmIdempotent ==
    last.op = "rm"
        => /\ last.ret = "True"
           /\ ~HasKey(creds, last.name.v)
           /\ Keys(creds) = Keys(last.creds) \ {last.name.v}
           /\ OthersUnchanged({last.name.v})
           /\ last.wrote
           /\ StoreMatches(creds, store)
           /\ (~HasKey(last.creds, last.name.v) => creds = last.creds)

C8_Witness ==
    /\ last.op = "rm"
    /\ ~HasKey(last.creds, last.name.v)
    /\ Len(last.creds.v) >= 1
    /\ StoreMatches(last.creds, last.store)
    /\ last.ret = "True"

\* C9: a successful import merges destructively: every imported name maps
\* to the imported record, every name only in the previous set keeps its
\* record, nothing else is added or removed, the merged set is persisted.
C9_ImportDestructiveMerge ==
    (last.op = "import" /\ last.ret = "True")
        => LET imp == loads(last.file.v).val
           IN  /\ IsStr(last.file)
               /\ loads(last.file.v).ok
               /\ IF IsDict(imp)
                  THEN /\ Keys(creds) = Keys(last.creds) \cup Keys(imp)
                       /\ \A k \in Keys(imp) :
                              PyEq(DictGet(creds, k), DictGet(imp, k))
                       /\ OthersUnchanged(Keys(imp))
                  ELSE creds = last.creds
               /\ last.wrote
               /\ StoreMatches(creds, store)

C9_Witness ==
    /\ last.op = "import"
    /\ last.ret = "True"
    /\ LET imp == loads(last.file.v).val
       IN  /\ IsDict(imp)
           /\ \E k \in Keys(imp) \cap Keys(last.creds) :
                  ~PyEq(DictGet(imp, k), DictGet(last.creds, k))
           /\ Keys(last.creds) \ Keys(imp) # {}

\* the dump file named in the last import could not be opened, or its
\* content is not valid JSON
ImportUnreadable ==
    /\ last.op = "import"
    /\ (~IsStr(last.file) \/ ~loads(last.file.v).ok)

\* C10: import_creds_from_file returns False and changes neither the set
\* nor the blob when the file cannot be opened or is not valid JSON; no
\* member of a file that fails to parse is merged.
C10_ImportFailureNoMutation ==
    ImportUnreadable => (last.ret = "False" /\ NothingChanged)

C10_Witness ==
    /\ ImportUnreadable
    /\ last.file = TruncatedFile
    /\ HasKey(last.creds, <<"a">>)
    /\ ~PyEq(DictGet(last.creds, <<"a">>), Rec(<<"M", "1">>))
    /\ last.ret = "False"

\* C11: export returns True and changes neither the set nor the store, and
\* a manager constructed on an empty keyring that imports the exported file
\* holds, and has persisted, a set equal as a mapping to the exported one.
C11_ExportImportRoundTrip ==
    /\ last.op = "export"
           => (last.ret = "True" /\ creds = last.creds /\ store = last.store)
    /\ fresh.t = "manager"
           => /\ fresh.ret = "True"
              /\ PyEq(fresh.creds, last.creds)
              /\ StoreMatches(fresh.creds, fresh.store)

\* a comes before b in lexicographic order: at the first position where
\* they differ a ends, or has the character with the smaller code point
LexBefore(a, b) ==
    \E i \in 1..Len(b) :
        /\ Len(a) >= i - 1
        /\ \A j \in 1..(i - 1) : a[j] = b[j]
        /\ (Len(a) = i - 1 \/ Ord(a[i]) < Ord(b[i]))

\* C12: get_services() returns every key of the set exactly once, in
\* ascending lexicographic order whatever the order in which the set was
\* built (so the sequence is determined by the set alone), and changes
\* neither the set nor the store.
C12_GetServicesSorted ==
    last.op = "get_services"
        => /\ out.t = "list"
           /\ {out.v[i] : i \in 1..Len(out.v)} = Keys(creds)
           /\ Len(out.v) = Cardinality(Keys(creds))
           /\ \A i \in 1..Len(out.v) : \A j \in (i + 1)..Len(out.v) :
                  LexBefore(out.v[i], out.v[j])
           /\ creds = last.creds
           /\ store = last.store

C12_Witness ==
    /\ last.op = "get_services"
    /\ Len(out.v) = 3
    /\ out.v = << <<"B">>, <<"a">>, <<"a", "b">> >>
    /\ KeyList(creds) = << <<"a", "b">>, <<"B">>, <<"a">> >>

\* C13: load_creds tells a store that was never written from one that holds
\* an empty set.  With no blob it returns an empty dict when init_new is
\* true and False when init_new is false; once a mutating operation has
\* written a blob, be it the blob of an empty set, it returns a dict equal
\* to the set persisted, for either value of init_new, and never False.  The
\* call leaves the set and the blob alone.
C13_LoadCredsAbsentOrStored ==
    last.op = "load" =>
        /\ creds = last.creds /\ store = last.store
        /\ ~out.raised
        /\ store.t = "none" =>
              IF out.init_new
              THEN out.val.t = "dict" /\ Len(out.val.v) = 0
              ELSE out.val.t = "bool" /\ out.val.v = FALSE
        /\ store.t = "str" => out.val.t = "dict" /\ PyEq(out.val, creds)

\* add_service followed by rm_service of the same name left the blob of an
\* empty set, and load_creds(init_new=False) returned an empty dict
C13_Witness ==
    /\ last.op = "load" /\ ~out.init_new
    /\ store.t = "str" /\ store.v = dumps(EmptyDict)
    /\ out.val.t = "dict" /\ Len(out.val.v) = 0
    /\ Len(creds.v) = 0

\* the names in the persisted blob
StoreKeys(st) == Keys(load_creds(st, TRUE).val)

\* C14: with two instances on the same keyring entry, each loading at
\* construction, every store write replaces the whole blob by the set of the
\* instance that writes: at any time the blob deserializes to the set in the
\* memory of the instance that wrote last, whatever the other instance had
\* persisted before, and the write leaves the other instance's memory alone
\* (nothing is read back).
C14_LastWriterWins ==
    /\ LastWriter # 0 => StoreMatches(Mem(LastWriter), store)
    /\ (LastWriter # 0 /\ last.wrote) =>
          IF last.who = 1 THEN peer = last.peer ELSE creds = last.creds

\* a lost update: the blob held an entry that the other instance had
\* persisted and that the writer, having loaded earlier, does not have;
\* after the writer's add_service the entry is gone from the blob
C14_Witness ==
    /\ LastWriter = 1 /\ last.wrote /\ last.op = "add"
    /\ last.name = PyStr(<<"a">>)
    /\ <<"b">> \in StoreKeys(last.store)
    /\ ~HasKey(last.creds, <<"b">>)
    /\ peer.t = "manager" /\ HasKey(peer.creds, <<"b">>)
    /\ StoreKeys(store) = {<<"a">>}

\* a secret without = that decodes as base32
WellFormedSecret(s) ==
    /\ \A i \in 1..Len(s) : IsIn(B32ALPHABET, s[i]) \/ IsIn(LOWER, s[i])
    /\ Len(s) % 8 \in {0, 2, 4, 5, 7}

\* the number a string of six decimal digits stands for
SixDigitValue(s) ==
    100000 * (Ord(s[1]) - 48) + 10000 * (Ord(s[2]) - 48) + 1000 * (Ord(s[3]) - 48)
    + 100 * (Ord(s[4]) - 48) + 10 * (Ord(s[5]) - 48) + (Ord(s[6]) - 48)

RunFailed ==
    \/ run.ret \notin {"True", "str", "none"}
    \/ run.why \in {"no_such_service", "empty", "unavailable", "declined", "raised"}

\* C16: every run of the command line program ends with exit code 1 when
\* its operation failed (add_service or edit_service returned False, the
\* import could not open or parse the file, the service of -s does not
\* exist, the stored secret is malformed, the keyring is unavailable, the
\* user declined) and with exit code 0 when it succeeded or showed the
\* version.
C16_ExitCodeTellsFailure ==
    run.pc = "exit" => run.code = (IF RunFailed THEN 1 ELSE 0)

\* an answer that is y or yes in some mix of cases
IsYes(answer) ==
    /\ answer.t = "str"
    /\ answer.v \in { <<"y">>, <<"Y">>, <<"y", "e", "s">>, <<"Y", "E", "S">>,
                      <<"Y", "e", "s">> }

\* C17: in a run with --import or --export, nothing is read, merged or
\* written while the run waits at the confirmation prompt; the operation is
\* called exactly when the answer is y or yes in any mix of cases, and on
\* any other answer the run ends with exit code 1 and the set, the blob and
\* the file named on the command line are as they were when the run began.
C17_ConfirmBeforeTransfer ==
    /\ run.pc = "confirm" =>
          /\ run.ret = "none"
          /\ creds = last.creds /\ store = last.store /\ disk = run.disk0
    /\ (run.pc = "exit" /\ run.mode \in {"import", "export"}) =>
          IF IsYes(run.answer)
          THEN run.ret # "none" /\ run.why # "declined"
          ELSE /\ run.code = 1 /\ run.why = "declined" /\ run.ret = "none"
               /\ creds = last.creds /\ store = last.store /\ disk = run.disk0

\* the user answered "ye" to the import warning: the dump with service a
\* was not merged, and the run ended with exit code 1
C17_Witness ==
    /\ run.pc = "exit" /\ run.mode = "import" /\ run.code = 1
    /\ run.answer = PyStr(<<"y", "e">>)
    /\ disk.t = "bytes"
    /\ disk = PyBytes(write_utf8(dumps(PyDict(<<<<<<"a">>, Rec(<<"M", "F">>)>>>>))))
    /\ Len(creds.v) = 1 /\ ~HasKey(creds, <<"a">>)
    /\ StoreMatches(creds, store)

\* C18: in every state that runs of the command line program reach, every
\* service name in the set is a non-empty string.
C18_NamesNonEmpty ==
    \A k \in Keys(creds) : Len(k) > 0

\* a character that base32 does not have
HasBadChar(s) == \E i \in 1..Len(s) : ~IsIn(B32ALPHABET, upper(s[i]))

\* C19: a malformed secret is stored without complaint: runs with --add and
\* --edit succeed whatever the secret, and no run other than a generation
\* reports a base32 error.  When the code of a service is generated, a
\* secret with a character outside base32 and a secret of base32 characters
\* with incorrect padding give different messages; each of the two runs
\* ends with exit code 1, prints no code and copies nothing.
C19_MalformedSecretAtGeneration ==
    run.pc = "exit" =>
        /\ run.mode # "generate" =>
              /\ out.msg \notin {"non_base32_digit", "incorrect_padding", "traceback"}
                    \/ run.mode \in {"import", "export"}
              /\ out.msg \notin {"non_base32_digit", "incorrect_padding"}
              /\ (run.mode = "add" /\ ~HasKey(last.creds, run.name.v)) =>
                    run.ret = "True" /\ run.code = 0
        /\ (run.mode = "generate" /\ run.service.t = "str"
              /\ HasKey(creds, run.service.v)) =>
              LET secret == DictGet(DictGet(creds, run.service.v), CODE).v
              IN  IF HasBadChar(secret)
                  THEN /\ run.code = 1
                       /\ out.msg \in {"non_base32_digit", "traceback"}
                       /\ out.printed.t = "none" /\ out.clip.t = "none"
                  ELSE IF Len(secret) % 8 \in {1, 3, 6}
                  THEN /\ run.code = 1
                       /\ out.msg = "incorrect_padding"
                       /\ out.printed.t = "none" /\ out.clip.t = "none"
                  ELSE run.code = 0 /\ run.ret = "str"

\* the secret M was added without complaint; generating its code with
\* --copy reported incorrect padding, printed and copied nothing, and ended
\* with exit code 1
C19_Witness ==
    /\ run.pc = "exit" /\ run.mode = "generate" /\ run.copy /\ ~run.quiet
    /\ run.service = PyStr(<<"a">>)
    /\ HasKey(creds, <<"a">>) /\ DictGet(creds, <<"a">>) = Rec(<<"M">>)
    /\ HasKey(creds, <<>>) /\ DictGet(creds, <<>>) = Rec(<<"M", "1">>)
    /\ run.code = 1 /\ out.msg = "incorrect_padding"
    /\ out.printed.t = "none" /\ out.clip.t = "none"

\* the set as the failed call left it carries the call's change
MutationKept ==
    IF last.op = "add"
    THEN /\ ~HasKey(last.creds, last.name.v)
         /\ Keys(creds) = Keys(last.creds) \cup {last.name.v}
         /\ DictGet(creds, last.name.v) = Rec(last.secret.v)
         /\ OthersUnchanged({})
    ELSE IF last.op = "rm"
    THEN /\ Keys(creds) = Keys(last.creds) \ {last.name.v}
         /\ OthersUnchanged({last.name.v})
    ELSE IF last.op = "edit"
    THEN LET now == IF last.new_name.t = "none" THEN last.name.v ELSE last.new_name.v
         IN  /\ Keys(creds) = (Keys(last.creds) \ {last.name.v}) \cup {now}
             /\ last.secret.t = "str" =>
                   PyEq(DictGet(DictGet(creds, now), CODE), last.secret)
             /\ OthersUnchanged({last.name.v})
    ELSE /\ Keys(creds) = Keys(last.creds) \cup {<<"b">>}
         /\ DictGet(creds, <<"b">>) = Rec(<<"M", "F">>)
         /\ OthersUnchanged({<<"b">>})

\* C20: there is no rollback.  When the store write of add_service,
\* edit_service, rm_service or import_creds_from_file fails, the set keeps
\* the change the call made and the blob stays as it was, so that, where the
\* blob matched the set before and the call changed the set, blob and set now
\* differ.  Every later call whose store write succeeds writes the whole set:
\* the blob then deserializes to the set, with every entry the set held
\* before that call and the call did not touch, those of failed writes
\* included.
C20_NoRollbackThenResync ==
    /\ last.ret = "PasswordSetError" =>
          /\ store = last.store
          /\ MutationKept
          /\ (StoreMatches(last.creds, last.store) /\ ~PyEq(creds, last.creds)) =>
                ~StoreMatches(creds, store)
    /\ last.wrote =>
          /\ StoreMatches(creds, store)
          /\ \A k \in Keys(last.creds) \ (IF last.op = "import" THEN {} ELSE {last.name.v}) :
                k \in StoreKeys(store)

\* the write of an add_service of a had failed: the set held a, the blob
\* did not; the add_service of b that followed wrote both
C20_Witness ==
    /\ last.op = "add" /\ last.wrote /\ last.name = PyStr(<<"b">>)
    /\ HasKey(last.creds, <<"a">>)
    /\ last.store.t = "none"
    /\ StoreKeys(store) = {<<"a">>, <<"b">>}
    /\ StoreMatches(creds, store)

\* every record of the mapping d is an object with a code field
EveryEntryHasCode(d) ==
    \A i \in 1..Len(d.v) : IsDict(d.v[i][2]) /\ HasKey(d.v[i][2], CODE)

\* C21: in every state reached through add_service, edit_service,
\* rm_service and import_creds_from_file, every entry of the set and of the
\* persisted blob is an object with a code field, and get_totp_code gets to
\* read the code of every name that get_services returns.
C21_EveryEntryHasCode ==
    /\ EveryEntryHasCode(creds)
    /\ store.t = "str" => EveryEntryHasCode(load_creds(store, TRUE).val)
    /\ \A i \in 1..Len(get_services(creds).v) :
          get_totp_code(creds, PyStr(get_services(creds).v[i]), 42).secret.t # "none"

\* the integer an answer to the menu prompt stands for, 0 when it is not a
\* positive integer
Picked(answer) ==
    IF answer = <<"1">> THEN 1
    ELSE IF answer = <<"2">> THEN 2
    ELSE IF answer = <<"3">> THEN 3
    ELSE 0

\* the sequence service_menu was given: the names of the set the run began
\* with, in ascending order
Offered == get_services(last.creds).v

\* C22: service_menu in selection mode returns only members of the sequence
\* it was given.  Given no name it ends the run with exit code 1 before any
\* prompt; given n >= 1 names it prompts again after every answer that is not
\* an integer in 1..n (empty or non-numeric text, 0, a negative number, a
\* number above n) and returns the k-th name listed for the first answer k
\* in 1..n.
C22_MenuReturnsListedName ==
    /\ (run.pc = "exit" /\ run.why = "empty") =>
          /\ Len(Offered) = 0 /\ run.code = 1
          /\ run.answer.t = "none" /\ run.service.t = "none"
    /\ run.pc = "menu" =>
          /\ Len(Offered) >= 1 /\ run.service.t = "none"
          /\ run.answer.t = "str" =>
                /\ Picked(run.answer.v) \notin 1..Len(Offered)
                /\ out.msg = "invalid_selection"
    /\ (run.pc \in {"edit_name", "edit_secret", "exit"}
          /\ run.mode \in {"remove", "edit", "generate"}
          /\ run.answer.t = "str") =>
          /\ Picked(run.answer.v) \in 1..Len(Offered)
          /\ run.service = PyStr(Offered[Picked(run.answer.v)])
          /\ run.service.v \in Keys(last.creds)

\* of the two names listed, '' and a, the user picked the second: a was
\* removed and '' is still there
C22_Witness ==
    /\ run.pc = "exit" /\ run.mode = "remove"
    /\ Len(Offered) = 2 /\ Offered = << <<>>, <<"a">> >>
    /\ run.answer = PyStr(<<"2">>)
    /\ run.service = PyStr(<<"a">>)
    /\ ~HasKey(creds, <<"a">>) /\ HasKey(creds, <<>>)

====
